---- MODULE Spec2Model ----
(***************************************************************************)
(* Node registry and status reconciliation of the Skyport panel            *)
(* (skyport-panel/routes/admin.js).                                        *)
(*                                                                         *)
(* The handlers are async functions: each `await` is a point where other   *)
(* handlers run.  One action of the model is the effect of one awaited     *)
(* operation on the database (db.get / db.set / db.delete) together with   *)
(* the code around it that touches only the handler's own objects: the     *)
(* arrival of the request before its first database access, the settling   *)
(* of the axios request before the db.set of checkNodeStatus, the read of  *)
(* the panel name before a render.  Between two database accesses of one   *)
(* handler any other handler may run.                                      *)
(***************************************************************************)
EXTENDS Integers, Sequences, FiniteSets, TLC

\* ---------------------------------------------------------------- bounds
MaxReq == 3          \* requests the panel receives, all of which may overlap
MaxNodes == 2        \* uuids handed out by uuidv4()

\* ---------------------------------------------------------------- values
Undef == "undefined"         \* a JS property that is absent / undefined
NoId == 0                    \* req.body.nodeId missing (falsy)
NodeIds == 1..MaxNodes
GhostId == MaxNodes + 1      \* a well-formed id that uuidv4() never produced
Slots == 1..MaxReq

\* req.body of /nodes/create and of POST /admin/node/:id
BodyA ==
  [name |-> "a", tags |-> "a", ram |-> "a", disk |-> "a", processor |-> "a",
   address |-> "a", port |-> "a", apiKey |-> "a"]
BodyB ==
  [name |-> "b", tags |-> "b", ram |-> "b", disk |-> "b", processor |-> "b",
   address |-> "b", port |-> "b", apiKey |-> "b"]
BodyNoAddress == [BodyA EXCEPT !.address = Undef]
Bodies == {BodyA, BodyB, BodyNoAddress}
DescFields ==
  {"name", "tags", "ram", "disk", "processor", "address", "port", "apiKey"}

\* what the axios request of checkNodeStatus can come back with
\*   "error"   - axios rejects (network error, non-2xx)
\*   "daemon"  - 2xx, body {versionFamily, versionRelease, online, remote, docker}
\*   "spec"    - 2xx, body {versionFamily, versionRelease, online, remote, dockerInfo}
\*   "garbage" - 2xx, body that is not JSON: axios resolves and response.data
\*               is the body as a string, whose only own property is length
ProbeOutcomes == {"error", "daemon", "spec", "garbage"}
ResponseData(outcome) ==
  CASE outcome = "daemon" ->
         [versionFamily |-> "1", versionRelease |-> "r1", online |-> "true",
          remote |-> "true", docker |-> "dk1"]
    [] outcome = "spec" ->
         [versionFamily |-> "2", versionRelease |-> "r2", online |-> "true",
          remote |-> "false", dockerInfo |-> "di2"]
    [] OTHER -> [length |-> "6"]

\* JS property read: obj.f is undefined when obj has no property f
Prop(obj, f) == IF f \in DOMAIN obj THEN obj[f] ELSE Undef

\* the object literal of /nodes/create and POST /admin/node/:id
NewNode(id, body) ==
  [id |-> id,
   name |-> Prop(body, "name"), tags |-> Prop(body, "tags"),
   ram |-> Prop(body, "ram"), disk |-> Prop(body, "disk"),
   processor |-> Prop(body, "processor"), address |-> Prop(body, "address"),
   port |-> Prop(body, "port"), apiKey |-> Prop(body, "apiKey"),
   status |-> "Unknown",
   versionFamily |-> Undef, versionRelease |-> Undef, remote |-> Undef,
   docker |-> Undef]

NoNode == NewNode(NoId, [name |-> Undef])

\* faulty variant: the catch block does not set the status
CheckNodeStatusLeavesStatus(node, outcome) ==
  IF outcome = "error"
  THEN node
  ELSE LET data == ResponseData(outcome) IN
       [node EXCEPT !.status = "Online",
                    !.versionFamily = Prop(data, "versionFamily"),
                    !.versionRelease = Prop(data, "versionRelease"),
                    !.remote = Prop(data, "remote"),
                    !.docker = Prop(data, "docker")]

\* faulty variant: the catch block resets the capability fields
CheckNodeStatusClearsCapabilities(node, outcome) ==
  IF outcome = "error"
  THEN [node EXCEPT !.status = "Offline",
                    !.versionFamily = Undef, !.versionRelease = Undef,
                    !.remote = Undef, !.docker = Undef]
  ELSE LET data == ResponseData(outcome) IN
       [node EXCEPT !.status = "Online",
                    !.versionFamily = Prop(data, "versionFamily"),
                    !.versionRelease = Prop(data, "versionRelease"),
                    !.remote = Prop(data, "remote"),
                    !.docker = Prop(data, "docker")]

\* faulty variant: a success does not copy versionRelease
CheckNodeStatusKeepsRelease(node, outcome) ==
  IF outcome = "error"
  THEN [node EXCEPT !.status = "Offline"]
  ELSE LET data == ResponseData(outcome) IN
       [node EXCEPT !.status = "Online",
                    !.versionFamily = Prop(data, "versionFamily"),
                    !.remote = Prop(data, "remote"),
                    !.docker = Prop(data, "docker")]

\* checkNodeStatus, from the axios result to the object handed to db.set
CheckNodeStatus(node, outcome) ==
  IF outcome = "error"
  THEN [node EXCEPT !.status = "Offline"]
  ELSE LET data == ResponseData(outcome) IN
       [node EXCEPT !.status = "Online",
                    !.versionFamily = Prop(data, "versionFamily"),
                    !.versionRelease = Prop(data, "versionRelease"),
                    !.remote = Prop(data, "remote"),
                    !.docker = Prop(data, "docker")]

\* the validation of /nodes/create
FormValid(body) == \A f \in DescFields : Prop(body, f) # Undef

\* isAdmin middleware: req.user && req.user.admin === true
IsAdmin(admin) == admin = TRUE

\* ---------------------------------------------------------------- state
VARIABLES
  dbNodes,     \* db 'nodes': the ordered id list
  dbNode,      \* db '<id>_node': function from the ids that have a record
  reqs,        \* the requests, in order of arrival
  nextId,      \* the next value of uuidv4()
  lastProbe    \* per id, the probe whose axios request was issued last
               \* (history of the calls at line 64, read by no handler)

vars == <<dbNodes, dbNode, reqs, nextId, lastProbe>>

NoResp == [code |-> 0, text |-> "", nodes |-> <<>>]
Idle ==
  [kind |-> "none", pc |-> "idle", admin |-> FALSE, id |-> NoId,
   node |-> NoNode, nodes |-> <<>>, tasks |-> <<>>, resp |-> NoResp]

Resp(code, text, nodes) == [code |-> code, text |-> text, nodes |-> nodes]

\* db.set(id + '_node', node)
DbSetNode(db, id, node) ==
  [k \in DOMAIN db \cup {id} |-> IF k = id THEN node ELSE db[k]]
\* db.delete(id + '_node')
DbDeleteNode(db, id) == [k \in DOMAIN db \ {id} |-> db[k]]

\* Array.prototype.filter(id => id !== nodeId)
RECURSIVE Filter(_, _)
Filter(s, nodeId) ==
  IF s = <<>> THEN <<>>
  ELSE IF Head(s) = nodeId THEN Filter(Tail(s), nodeId)
       ELSE <<Head(s)>> \o Filter(Tail(s), nodeId)

Range(s) == {s[i] : i \in DOMAIN s}

\* a probe: the request it belongs to and, in a list, the task (else 0)
Probe(r, i) == <<r, i>>
NoProbe == Probe(0, 0)

Init ==
  /\ dbNodes = <<>>
  /\ dbNode = [k \in {} |-> NoNode]
  /\ reqs = [r \in Slots |-> Idle]
  /\ nextId = 1
  /\ lastProbe = [id \in NodeIds |-> NoProbe]

\* the r-th request arrives
Arrives(r) ==
  /\ reqs[r].pc = "idle"
  /\ \A q \in Slots : q < r => reqs[q].pc # "idle"

\* a request inside its handler
Request(kind, pc, admin, id) ==
  [Idle EXCEPT !.kind = kind, !.pc = pc, !.admin = admin, !.id = id]
\* a request that has been answered
Answered(req, resp) ==
  [Request(req.kind, "done", req.admin, req.id) EXCEPT !.resp = resp]
\* isAdmin: return res.redirect('../')
Gated(kind, admin) ==
  Answered(Request(kind, "idle", admin, NoId), Resp(302, "../", <<>>))

\* ------------------------------------------------- POST /nodes/create
\* the node literal, the form validation, await db.set(node.id + '_node', node);
\* checkNodeStatus issues the axios request
Create(r, admin, body) ==
  /\ Arrives(r)
  /\ nextId <= MaxNodes
  /\ IF ~IsAdmin(admin)
     THEN /\ reqs' = [reqs EXCEPT ![r] = Gated("create", admin)]
          /\ UNCHANGED <<dbNode, nextId, lastProbe>>
     ELSE IF ~FormValid(body)
     THEN /\ reqs' = [reqs EXCEPT ![r] =
                 Answered(Request("create", "idle", admin, NoId),
                          Resp(200, "Form validation failure.", <<>>))]
          /\ UNCHANGED <<dbNode, nextId, lastProbe>>
     ELSE /\ reqs' = [reqs EXCEPT ![r] =
                 [Request("create", "create_probe", admin, nextId)
                    EXCEPT !.node = NewNode(nextId, body)]]
          /\ dbNode' = DbSetNode(dbNode, nextId, NewNode(nextId, body))
          /\ nextId' = nextId + 1
          /\ lastProbe' = [lastProbe EXCEPT ![nextId] = Probe(r, 0)]
  /\ UNCHANGED dbNodes

\* checkNodeStatus from the settling of axios(RequestData) to its return;
\* back in the handler db.get('nodes') is issued
CreateProbe(r, outcome) ==
  /\ reqs[r].pc = "create_probe"
  /\ LET node == CheckNodeStatus(reqs[r].node, outcome) IN
     /\ dbNode' = DbSetNode(dbNode, node.id, node)
     /\ reqs' = [reqs EXCEPT ![r].pc = "create_getnodes", ![r].node = node]
  /\ UNCHANGED <<dbNodes, nextId, lastProbe>>

\* const nodes = await db.get('nodes') || []; nodes.push(node.id)
CreateGetNodes(r) ==
  /\ reqs[r].pc = "create_getnodes"
  /\ reqs' = [reqs EXCEPT ![r].pc = "create_setnodes",
                          ![r].nodes = Append(dbNodes, reqs[r].node.id)]
  /\ UNCHANGED <<dbNodes, dbNode, nextId, lastProbe>>

\* await db.set('nodes', nodes); res.status(201).send(updatedNode)
CreateSetNodes(r) ==
  /\ reqs[r].pc = "create_setnodes"
  /\ dbNodes' = reqs[r].nodes
  /\ reqs' = [reqs EXCEPT ![r] = Answered(@, Resp(201, "", <<reqs[r].node>>))]
  /\ UNCHANGED <<dbNode, nextId, lastProbe>>

\* ------------------------------------------------- DELETE /nodes/delete
\* const nodes = await db.get('nodes') || []; filter; if (!nodeId) return;
\* db.set('nodes', newNodes) is issued
Delete(r, admin, nodeId) ==
  /\ Arrives(r)
  /\ reqs' = [reqs EXCEPT ![r] =
       IF ~IsAdmin(admin) THEN Gated("delete", admin)
       ELSE IF nodeId = NoId
       THEN Answered(Request("delete", "idle", admin, nodeId),
                     Resp(200, "Invalid node", <<>>))
       ELSE [Request("delete", "delete_setnodes", admin, nodeId)
               EXCEPT !.nodes = Filter(dbNodes, nodeId)]]
  /\ UNCHANGED <<dbNodes, dbNode, nextId, lastProbe>>

\* await db.set('nodes', newNodes); db.delete is issued
DeleteSetNodes(r) ==
  /\ reqs[r].pc = "delete_setnodes"
  /\ dbNodes' = reqs[r].nodes
  /\ reqs' = [reqs EXCEPT ![r].pc = "delete_record"]
  /\ UNCHANGED <<dbNode, nextId, lastProbe>>

\* await db.delete(nodeId + '_node'); res.status(204).send()
DeleteRecord(r) ==
  /\ reqs[r].pc = "delete_record"
  /\ dbNode' = DbDeleteNode(dbNode, reqs[r].id)
  /\ reqs' = [reqs EXCEPT ![r] = Answered(@, Resp(204, "", <<>>))]
  /\ UNCHANGED <<dbNodes, nextId, lastProbe>>

\* ------------------------------------------------- GET /nodes/debug
\* (GET /admin/nodes and GET /admin/instances reconcile in the same way)
Task(pc, node) == [pc |-> pc, node |-> node]
\* faulty variant: the nodes are answered in another order than nodeIds
TaskNodesReversed(tasks) ==
  [i \in DOMAIN tasks |-> tasks[Len(tasks) + 1 - i].node]
\* the array Promise.all resolves to
TaskNodes(tasks) == [i \in DOMAIN tasks |-> tasks[i].node]
Fulfilled(tasks) == \A i \in DOMAIN tasks : tasks[i].pc = "done"

\* what Promise.all(...) makes of the tasks: the handler answers with the
\* nodes in the order of nodeIds once every task is fulfilled; a rejection
\* leaves the async handler rejected and the request without an answer,
\* while the other tasks run on
AfterTask(req, tasks) ==
  IF \E i \in DOMAIN tasks : tasks[i].pc = "rejected"
  THEN [req EXCEPT !.pc = "list_rejected", !.tasks = tasks]
  ELSE IF Fulfilled(tasks)
  THEN [Answered(req, Resp(200, "", TaskNodes(tasks)))
          EXCEPT !.nodes = req.nodes]
  ELSE [req EXCEPT !.tasks = tasks]

\* const nodeIds = await db.get('nodes') || []; one db.get per id is issued
List(r, admin) ==
  /\ Arrives(r)
  /\ reqs' = [reqs EXCEPT ![r] =
       IF ~IsAdmin(admin) THEN Gated("list", admin)
       ELSE AfterTask([Request("list", "list_tasks", admin, NoId)
                         EXCEPT !.nodes = dbNodes],
                      [i \in DOMAIN dbNodes |-> Task("get", NoNode)])]
  /\ UNCHANGED <<dbNodes, dbNode, nextId, lastProbe>>

ListRunning(r) == reqs[r].pc \in {"list_tasks", "list_rejected"}

\* db.get(id + '_node') resolves and .then(checkNodeStatus) runs up to the
\* axios call; with no record node is undefined, node.address throws and
\* node.status = 'Offline' in the catch throws again: the task rejects
ListTaskGet(r, i) ==
  /\ ListRunning(r)
  /\ i \in DOMAIN reqs[r].tasks
  /\ reqs[r].tasks[i].pc = "get"
  /\ LET id == reqs[r].nodes[i]
         t == IF id \in DOMAIN dbNode THEN Task("axios", dbNode[id])
              ELSE Task("rejected", NoNode)
     IN /\ reqs' = [reqs EXCEPT ![r] =
                   AfterTask(@, [reqs[r].tasks EXCEPT ![i] = t])]
        /\ lastProbe' = IF id \in DOMAIN dbNode
                        THEN [lastProbe EXCEPT ![id] = Probe(r, i)]
                        ELSE lastProbe
  /\ UNCHANGED <<dbNodes, dbNode, nextId>>

\* checkNodeStatus from the settling of axios(RequestData) to its return
ListTaskProbe(r, i, outcome) ==
  /\ ListRunning(r)
  /\ i \in DOMAIN reqs[r].tasks
  /\ reqs[r].tasks[i].pc = "axios"
  /\ LET node == CheckNodeStatus(reqs[r].tasks[i].node, outcome) IN
     /\ dbNode' = DbSetNode(dbNode, node.id, node)
     /\ reqs' = [reqs EXCEPT ![r] =
                   AfterTask(@, [reqs[r].tasks EXCEPT ![i] = Task("done", node)])]
  /\ UNCHANGED <<dbNodes, nextId, lastProbe>>

\* ------------------------------------------------- GET /admin/node/:id
\* what the handler answers on the record it finds (undefined: none)
GetOneResp(db, id) ==
  IF id \notin DOMAIN db THEN Resp(302, "../nodes", <<>>)
  ELSE Resp(200, "", <<db[id]>>)

\* const node = await db.get(id + '_node'); if (!node || !id) redirect;
\* await db.get('name'); res.render('admin/node', { node, ... })
GetOne(r, admin, id) ==
  /\ Arrives(r)
  /\ reqs' = [reqs EXCEPT ![r] =
       Answered(Request("getone", "idle", admin, id), GetOneResp(dbNode, id))]
  /\ UNCHANGED <<dbNodes, dbNode, nextId, lastProbe>>

\* ------------------------------------------------- POST /admin/node/:id
\* const cnode = await db.get(id + '_node'); if (!cnode || !id) 400;
\* the node literal is built and db.set is issued
Update(r, admin, id, body) ==
  /\ Arrives(r)
  /\ reqs' = [reqs EXCEPT ![r] =
       IF id \notin DOMAIN dbNode
       THEN Answered(Request("update", "idle", admin, id), Resp(400, "", <<>>))
       ELSE [Request("update", "update_set", admin, id)
               EXCEPT !.node = NewNode(id, body)]]
  /\ UNCHANGED <<dbNodes, dbNode, nextId, lastProbe>>

\* faulty variant: the handler answers without calling checkNodeStatus
UpdateSetAnswers(r) ==
  /\ reqs[r].pc = "update_set"
  /\ dbNode' = DbSetNode(dbNode, reqs[r].node.id, reqs[r].node)
  /\ reqs' = [reqs EXCEPT ![r] = Answered(@, Resp(201, "", <<reqs[r].node>>))]
  /\ UNCHANGED <<dbNodes, nextId, lastProbe>>

\* await db.set(node.id + '_node', node); checkNodeStatus issues the request
UpdateSet(r) ==
  /\ reqs[r].pc = "update_set"
  /\ dbNode' = DbSetNode(dbNode, reqs[r].node.id, reqs[r].node)
  /\ reqs' = [reqs EXCEPT ![r].pc = "update_probe"]
  /\ lastProbe' = [lastProbe EXCEPT ![reqs[r].node.id] = Probe(r, 0)]
  /\ UNCHANGED <<dbNodes, nextId>>

\* checkNodeStatus from the settling of axios(RequestData) to its return;
\* res.status(201).send(updatedNode)
UpdateProbe(r, outcome) ==
  /\ reqs[r].pc = "update_probe"
  /\ LET node == CheckNodeStatus(reqs[r].node, outcome) IN
     /\ dbNode' = DbSetNode(dbNode, node.id, node)
     /\ reqs' = [reqs EXCEPT ![r] = Answered(@, Resp(201, "", <<node>>))]
  /\ UNCHANGED <<dbNodes, nextId, lastProbe>>

\* ------------------------------------------------- a silent node
\* axios(RequestData) is given no timeout (lines 53-63), and axios has none by
\* default: when the node accepts the connection and never answers, the
\* promise awaited at line 64 never settles and the handler (for a list:
\* the task) stays at that await for good, while the other tasks run on
ProbeHangs(r, i) ==
  /\ \/ /\ i = 0
        /\ reqs[r].pc \in {"create_probe", "update_probe"}
        /\ reqs' = [reqs EXCEPT ![r].pc = "probe_hung"]
     \/ /\ i > 0
        /\ ListRunning(r)
        /\ i \in DOMAIN reqs[r].tasks
        /\ reqs[r].tasks[i].pc = "axios"
        /\ reqs' = [reqs EXCEPT ![r].tasks[i].pc = "hung"]
  /\ UNCHANGED <<dbNodes, dbNode, nextId, lastProbe>>

\* ------------------------------------------------- the clients
\* the ids the panel has handed out: those of the 201 answers of create
Known ==
  {reqs[r].id : r \in {q \in Slots : /\ reqs[q].kind = "create"
                                      /\ reqs[q].pc = "done"
                                      /\ reqs[q].resp.code = 201}}
\* ids a client can put in a request body or in the path
BodyIds == Known \cup {GhostId, NoId}
ParamIds == Known \cup {GhostId}

Next ==
  \E r \in Slots :
    \/ \E admin \in BOOLEAN, body \in Bodies : Create(r, admin, body)
    \/ \E o \in ProbeOutcomes : CreateProbe(r, o)
    \/ CreateGetNodes(r)
    \/ CreateSetNodes(r)
    \/ \E admin \in BOOLEAN, id \in BodyIds : Delete(r, admin, id)
    \/ DeleteSetNodes(r)
    \/ DeleteRecord(r)
    \/ \E admin \in BOOLEAN : List(r, admin)
    \/ \E i \in 1..MaxNodes : ListTaskGet(r, i)
    \/ \E i \in 1..MaxNodes, o \in ProbeOutcomes : ListTaskProbe(r, i, o)
    \/ \E admin \in BOOLEAN, id \in ParamIds : GetOne(r, admin, id)
    \/ \E admin \in BOOLEAN, id \in ParamIds, body \in Bodies :
         Update(r, admin, id, body)
    \/ UpdateSet(r)
    \/ \E o \in ProbeOutcomes : UpdateProbe(r, o)
    \/ \E i \in 0..MaxNodes : ProbeHangs(r, i)

Spec == Init /\ [][Next]_vars

\* every step the event loop can take is taken in the end: database
\* operations complete, and a node that answers at all is heard
FairSpec == Spec /\ WF_vars(Next)

\* ================================================================ claims
Listed == Range(dbNodes)
Stored == DOMAIN dbNode
NoDuplicates(s) == \A i, j \in DOMAIN s : s[i] = s[j] => i = j
AllAnswered == \A r \in Slots : reqs[r].pc \in {"idle", "done"}
Created(r) ==
  reqs[r].kind = "create" /\ reqs[r].pc = "done" /\ reqs[r].resp.code = 201
\* the ids whose remove has answered 204
Removed ==
  {reqs[r].id : r \in {q \in Slots : /\ reqs[q].kind = "delete"
                                      /\ reqs[q].pc = "done"
                                      /\ reqs[q].resp.code = 204}}
ListAnswered(r) ==
  reqs[r].kind = "list" /\ reqs[r].pc = "done" /\ reqs[r].resp.code = 200
Ids(nodes) == [i \in DOMAIN nodes |-> nodes[i].id]
Descriptive(node) == [f \in DescFields |-> node[f]]
CapFields == {"versionFamily", "versionRelease", "remote", "docker"}
Capabilities(node) == [f \in CapFields |-> node[f]]

\* a step in which request r leaves pc `from` for pc `to`
Moves(r, from, to) == reqs[r].pc = from /\ reqs'[r].pc = to
\* a step in which task i of the list request r leaves `from` for `to`
TaskMoves(r, i, from, to) ==
  /\ ListRunning(r)
  /\ i \in DOMAIN reqs[r].tasks
  /\ reqs[r].tasks[i].pc = from
  /\ reqs'[r].pc = "done" \/ reqs'[r].tasks[i].pc = to

\* C1: once every request has been answered, the ids of the 'nodes' list are
\* exactly the ids that have a '<id>_node' record, and no id is listed twice.
C1_ListMatchesRecords ==
  AllAnswered => (Listed = Stored /\ NoDuplicates(dbNodes))

\* C2: once remove(id) has answered, a getOne(id) that reads the Store in any
\* later state is answered not-found and the 'nodes' list does not hold id.
C2_RemovedStaysGone ==
  \A id \in Removed \cap NodeIds :
    /\ GetOneResp(dbNode, id).code = 302
    /\ id \notin Listed

\* C3: while a remove(id) is in progress, no state lets another request see
\* the id listed without its record or the record without its listed id.
C3_RemoveAtomic ==
  \A r \in Slots :
    (reqs[r].kind = "delete" /\ reqs[r].pc # "done")
      => (reqs[r].id \in Listed <=> reqs[r].id \in Stored)

\* C4: when register answers 201, the record it returns has status Online or
\* Offline, its id is in the 'nodes' list and the persisted record of that id
\* carries the same status.
C4_RegisterReturnsProbed ==
  [][\A r \in Slots :
       (Moves(r, "create_setnodes", "done") /\ reqs'[r].resp.code = 201) =>
         LET node == reqs'[r].resp.nodes[1] IN
           /\ node.status \in {"Online", "Offline"}
           /\ node.id \in Range(dbNodes')
           /\ node.id \in DOMAIN dbNode'
           /\ dbNode'[node.id].status = node.status]_vars

C4_Witness ==
  \E r \in Slots : Created(r) /\ reqs[r].resp.nodes[1].status = "Offline"

\* C5 (as stated): once a persisted record has a status other than Unknown,
\* no later step makes its persisted status Unknown again.
C5_NeverBackToUnknown ==
  [][\A id \in DOMAIN dbNode \cap DOMAIN dbNode' :
       dbNode[id].status # "Unknown" => dbNode'[id].status # "Unknown"]_vars

\* C5 (amended): a persisted record has status Unknown only while a register
\* or an update of that node has persisted it and the probe of that call has
\* not written back yet.
C5_UnknownOnlyWhileProbePending ==
  \A id \in DOMAIN dbNode :
    dbNode[id].status = "Unknown" =>
      \E r \in Slots :
        /\ reqs[r].pc \in {"create_probe", "update_probe", "probe_hung"}
        /\ reqs[r].id = id

C5_Witness ==
  \E r \in Slots, q \in Slots :
    /\ Created(q)
    /\ reqs[r].pc = "update_probe"
    /\ reqs[r].id = reqs[q].id
    /\ reqs[r].id \in DOMAIN dbNode
    /\ dbNode[reqs[r].id].status = "Unknown"

\* C6: a remove of a non-empty id that is not in the 'nodes' list is answered
\* at once with an error and goes on to no write.
C6_RemoveAbsentFails ==
  [][\A r \in Slots :
       (/\ reqs[r].pc = "idle"
        /\ reqs'[r].kind = "delete"
        /\ reqs'[r].admin
        /\ reqs'[r].id # NoId
        /\ reqs'[r].id \notin Listed)
       => (reqs'[r].pc = "done" /\ reqs'[r].resp.code >= 400)]_vars

\* C7: a list answer holds one record per id of the id list the call read,
\* in the order of that list, whatever the order in which its probes ended.
C7_ListInRegistrationOrder ==
  \A r \in Slots :
    ListAnswered(r) => Ids(reqs[r].resp.nodes) = reqs[r].nodes

C7_Witness ==
  \E r \in Slots :
    /\ ListAnswered(r)
    /\ Len(reqs[r].resp.nodes) = 2
    /\ Ids(reqs[r].resp.nodes) = <<2, 1>>

\* C8: the descriptive and network fields of a persisted record are changed
\* by nothing but the db.set of an explicit update of that node.
C8_OnlyUpdateWritesDescriptive ==
  [][\A id \in DOMAIN dbNode \cap DOMAIN dbNode' :
       Descriptive(dbNode'[id]) # Descriptive(dbNode[id]) =>
         \E r \in Slots : /\ Moves(r, "update_set", "update_probe")
                          /\ reqs[r].id = id]_vars

\* the node object a probe ends on, and the one it leaves, in a step that
\* ends a probe (of register, of update, of task i of a list)
ProbeEnds(r, i) ==
  \/ i = 0 /\ Moves(r, "create_probe", "create_getnodes")
  \/ i = 0 /\ Moves(r, "update_probe", "done")
  \/ i > 0 /\ TaskMoves(r, i, "axios", "done")
ProbedNode(r, i) == IF i = 0 THEN reqs[r].node ELSE reqs[r].tasks[i].node

\* C9: a probe that ends with the record Offline persists it with the
\* capability fields the record had when the probe was issued.
C9_FailedProbeKeepsCapabilities ==
  [][\A r \in Slots, i \in 0..MaxNodes :
       ProbeEnds(r, i) =>
         LET node == ProbedNode(r, i) IN
           /\ node.id \in DOMAIN dbNode'
           /\ dbNode'[node.id].status \in {"Online", "Offline"}
           /\ dbNode'[node.id].status = "Offline" =>
                /\ Capabilities(dbNode'[node.id]) = Capabilities(node)
                /\ Descriptive(dbNode'[node.id]) = Descriptive(node)]_vars

C9_Witness ==
  \E r \in Slots, q \in Slots :
    /\ Created(q) /\ reqs[q].resp.nodes[1].status = "Online"
    /\ ListAnswered(r)
    /\ \E i \in DOMAIN reqs[r].resp.nodes :
         LET node == reqs[r].resp.nodes[i] IN
           /\ node.id = reqs[q].id
           /\ node.status = "Offline"
           /\ node.id \in DOMAIN dbNode
           /\ dbNode[node.id] = node
           /\ Capabilities(node) = Capabilities(reqs[q].resp.nodes[1])

\* the persisted record agrees with a success body on its capability fields,
\* the docker information being read from the body's field `from` and kept
\* in the record's field `to`
Overwritten(rec, data, from, to) ==
  /\ rec.status = "Online"
  /\ rec.versionFamily = Prop(data, "versionFamily")
  /\ rec.versionRelease = Prop(data, "versionRelease")
  /\ rec.remote = Prop(data, "remote")
  /\ Prop(rec, to) = Prop(data, from)
SuccessBodies == {ResponseData(o) : o \in ProbeOutcomes \ {"error"}}

ProbePending(r, i) ==
  \/ i = 0 /\ reqs[r].pc \in {"create_probe", "update_probe"}
  \/ /\ i > 0
     /\ ListRunning(r)
     /\ i \in DOMAIN reqs[r].tasks
     /\ reqs[r].tasks[i].pc = "axios"
\* the probe results that are failures: no answer or a non-2xx answer, and
\* a 2xx answer whose body is not JSON
FailureKinds == {"error", "garbage"}

\* C11: whatever failure a pending probe ends with (network error, non-2xx,
\* 2xx with a body that is not JSON), checkNodeStatus yields status Offline.
C11_FailuresYieldOffline ==
  \A r \in Slots, i \in 0..MaxNodes :
    ProbePending(r, i) =>
      \A o \in FailureKinds :
        CheckNodeStatus(ProbedNode(r, i), o).status = "Offline"

\* a request that waits for the probes of its batch
AwaitsBatch(r) ==
  reqs[r].pc \in {"create_probe", "update_probe", "probe_hung", "list_tasks"}

\* C12: under fair scheduling every request that waits for its batch of
\* probes gets past it in the end, also when a node of the batch never
\* answers (a list whose record fetch failed is not counted against this).
C12_BatchTerminates ==
  \A r \in Slots :
    AwaitsBatch(r) ~> (reqs[r].pc \in {"create_getnodes", "done", "list_rejected"})

\* C13: the record a getOne of a registered id answers with has a status
\* that a probe produced, Online or Offline.
C13_GetOneReconciles ==
  \A r \in Slots :
    (reqs[r].kind = "getone" /\ reqs[r].pc = "done" /\ reqs[r].resp.code = 200)
      => reqs[r].resp.nodes[1].status \in {"Online", "Offline"}

\* C14: a register or update whose body lacks a required field writes
\* nothing, so no persisted record lacks a descriptive or network field.
C14_MissingFieldWritesNothing ==
  \A id \in DOMAIN dbNode : \A f \in DescFields : dbNode[id][f] # Undef

\* C15: an update that arrives for an id that is not in the 'nodes' list is
\* answered at once with an error and goes on to no write.
C15_UpdateAbsentFails ==
  [][\A r \in Slots :
       (/\ reqs[r].pc = "idle"
        /\ reqs'[r].kind = "update"
        /\ reqs'[r].id \notin Listed)
       => (reqs'[r].pc = "done" /\ reqs'[r].resp.code >= 400)]_vars

\* C16: a request whose user is not an admin is turned away at once, is
\* given no node data and goes on to no write.
C16_AdminOnly ==
  \A r \in Slots :
    (reqs[r].kind # "none" /\ ~IsAdmin(reqs[r].admin)) =>
      /\ reqs[r].pc = "done"
      /\ reqs[r].resp.nodes = <<>>
      /\ reqs[r].resp.code \notin {200, 201}

\* C17: an id leaves the 'nodes' list only by the db.set of a remove that
\* was called with that id.
C17_ListedUntilRemoved ==
  [][\A id \in Listed :
       id \notin Range(dbNodes') =>
         \E r \in Slots : /\ Moves(r, "delete_setnodes", "delete_record")
                          /\ reqs[r].id = id]_vars

\* C18: the capability fields of a persisted record change only in a step
\* that ends a probe of that node with the record Online.
C18_CapabilitiesOnlyBySuccess ==
  [][\A id \in DOMAIN dbNode \cap DOMAIN dbNode' :
       Capabilities(dbNode'[id]) # Capabilities(dbNode[id]) =>
         /\ dbNode'[id].status = "Online"
         /\ \E r \in Slots, i \in 0..MaxNodes :
              ProbeEnds(r, i) /\ ProbedNode(r, i).id = id]_vars

\* C19: a list is never left without an answer by a record that is gone
\* when the list fetches it.
C19_ListAlwaysAnswers ==
  \A r \in Slots : reqs[r].pc # "list_rejected"

\* probe p has been issued and has not written back (pending, or silent)
ProbeOpen(r, i) ==
  \/ ProbePending(r, i)
  \/ i = 0 /\ reqs[r].pc = "probe_hung"
  \/ /\ i > 0
     /\ ListRunning(r)
     /\ i \in DOMAIN reqs[r].tasks
     /\ reqs[r].tasks[i].pc = "hung"
\* the node object checkNodeStatus returned for a probe that has ended
ProbeResult(r, i) ==
  IF reqs[r].pc = "done"
  THEN reqs[r].resp.nodes[IF i = 0 THEN 1 ELSE i]
  ELSE ProbedNode(r, i)

\* C20: once no probe of a node is under way, the persisted status of the
\* node is the outcome of the probe of that node that was issued last.
C20_StatusOfLastIssuedProbe ==
  \A id \in DOMAIN dbNode \cap NodeIds :
    (/\ lastProbe[id] # NoProbe
     /\ \A r \in Slots, i \in 0..MaxNodes :
          ProbeOpen(r, i) => ProbedNode(r, i).id # id)
    => dbNode[id].status =
         ProbeResult(lastProbe[id][1], lastProbe[id][2]).status
====
